---- MODULE Spec2Model ----
(***************************************************************************)
(* Model of the FRAM_FM24CXX_I2C driver (src/FRAM_FM24CXX_I2C.cpp, .h).    *)
(*                                                                         *)
(* State: the driver object's fields (i2c_addr, wpPin, wpStatus), the      *)
(* build's properties (width of int, MANAGE_WP), the I2C device the bus    *)
(* leads to (its memory and its address latch), the GPIO pin, and a record *)
(* of the last two calls with the bus and GPIO calls the last one made.    *)
(* One action per public method; each action is the whole call.            *)
(***************************************************************************)
EXTENDS Integers, Sequences, FiniteSets, TLC

VARIABLES
    intBits,    \* width of int of the build: 16 (AVR) or 32 (ARM, ESP)
    manageWP,   \* the MANAGE_WP macro of the build
    ctorAddr,   \* the i2c_addr argument the constructor was called with
    chipDensity, \* the chipDensity argument the constructor was called with
    i2c_addr,   \* the member i2c_addr
    wpPin,      \* the member wpPin
    wpStatus,   \* the member wpStatus
    pinDir,     \* direction of the pin wpPin: "INPUT" or "OUTPUT"
    pinLevel,   \* level last driven on the pin: "NONE", "HIGH" or "LOW"
    mem,        \* the device's memory
    latch,      \* the device's internal address latch
    call,       \* the last call: method, arguments, return value, outputs
    prev,       \* the call before it
    bus,        \* the Wire calls the last call made, in order
    gpio,       \* the pinMode/digitalWrite calls the last call made, in order
    steps       \* number of calls made since construction

vars == <<intBits, manageWP, ctorAddr, chipDensity, i2c_addr, wpPin, wpStatus, pinDir,
          pinLevel, mem, latch, call, prev, bus, gpio, steps>>

(***************************************************************************)
(* Program constants.                                                      *)
(***************************************************************************)
MAXADDRESS_04 == 512
ERROR_0 == 0
ERROR_2 == 2
ERROR_3 == 3
ERROR_8 == 8
ERROR_9 == 9
ERROR_10 == 10
ERROR_11 == 11
DEFAULT_WP_PIN == 13
DEFAULT_WP_STATUS == FALSE
\* The device's strapped bus address, FM24CXX_ADDRESS_A000.
FM24CXX_ADDRESS_A000 == 80

(***************************************************************************)
(* Bounds of the model.                                                    *)
(***************************************************************************)
\* Calls per run where the calls are looked at one by one; one more where
\* they are looked at in pairs.
MaxOps == 1
\* Number of initial memory contents tried.
NumFill == 2
\* Longest array passed to writeArray / readArray besides the extremes.
MaxItems == 2

\* uint8_t conversion of an int.
U8(x) == x % 256
\* uint16_t conversion of an int.
U16(x) == x % 65536

(***************************************************************************)
(* Bit helpers of Arduino.h, on bytes.                                     *)
(***************************************************************************)
RECURSIVE Pow2(_)
Pow2(n) == IF n = 0 THEN 1 ELSE 2 * Pow2(n - 1)

\* bitRead(value, bit): ((value) >> (bit)) & 0x01
bitRead(value, bit) == (value \div Pow2(bit)) % 2
\* bitSet(value, bit): value |= (1UL << (bit)), stored back to a uint8_t
bitSet(value, bit) == IF bitRead(value, bit) = 1 THEN value ELSE value + Pow2(bit)
\* bitClear(value, bit): value &= ~(1UL << (bit))
bitClear(value, bit) == IF bitRead(value, bit) = 1 THEN value - Pow2(bit) ELSE value

(***************************************************************************)
(* The bus and the device behind it.  The device is an FM24C04: it answers *)
(* to its strapped address with either value of the low (page select) bit; *)
(* a write transaction latches page and word address, then stores the data *)
(* bytes at consecutive addresses; a read takes the page from the address  *)
(* byte of the read itself and the low 8 bits from the latch.              *)
(***************************************************************************)
\* One Wire call: its name, its argument x, its second argument n, and its
\* result r (endTransmission: the status; requestFrom: the number of bytes
\* received; read: the byte).
Entry(f, x, n, r) == [f |-> f, x |-> x, n |-> n, r |-> r]
EBegin(sel)           == Entry("beginTransmission", sel, 0, 0)
EWrite(b)             == Entry("write", b, 0, 0)
EEnd(st)              == Entry("endTransmission", 0, 0, st)
ERequest(sel, n, got) == Entry("requestFrom", sel, n, got)
ERead(b)              == Entry("read", 0, 0, b)

\* Does a device acknowledge bus address sel.
Acks(sel) == (sel \div 2) = (FM24CXX_ADDRESS_A000 \div 2)
PageOf(sel) == sel % 2

\* Status of Wire.endTransmission() for a transaction to sel; fault is what
\* the bus does to a transaction the device would accept (0: nothing).
EndStatus(sel, fault) == IF Acks(sel) THEN fault ELSE ERROR_2

\* Byte a of the initial content number p of a device.
InitByte(p, a) == (a + (a \div 256) * 91 + 37 * p) % 256

\* A memory is kept as the number of its initial content (fill) and the bytes
\* stored since (over, address -> byte).
InitMem(p) == [fill |-> p, over |-> [a \in {} |-> 0]]

\* The byte memory m holds at address a.
Peek(m, a) == IF a \in DOMAIN m.over THEN m.over[a] ELSE InitByte(m.fill, a)

\* Memory m after the device stored the bytes data from address at on, the
\* address counter rolling over after the last address.
Store(m, at, data) ==
    LET to == {(at + j - 1) % MAXADDRESS_04 : j \in 1..Len(data)}
    IN  [fill |-> m.fill,
         over |-> [a \in DOMAIN m.over \cup to |->
                     IF a \in to THEN data[((a - at) % MAXADDRESS_04) + 1]
                     ELSE m.over[a]]]

\* The world w (mem, latch, bus log) after one write transaction to sel
\* carrying the word address sub and the bytes data.
BusWrite(w, sel, sub, data, fault) ==
    LET st == EndStatus(sel, fault)
        at == PageOf(sel) * 256 + sub
        log == <<EBegin(sel), EWrite(sub)>>
                 \o [j \in 1..Len(data) |-> EWrite(data[j])]
                 \o <<EEnd(st)>>
    IN  [mem   |-> IF st = 0 THEN Store(w.mem, at, data) ELSE w.mem,
         latch |-> IF st = 0 THEN (at + Len(data)) % MAXADDRESS_04 ELSE w.latch,
         bus   |-> w.bus \o log,
         st    |-> st]

\* The world after Wire.requestFrom(sel, n) and n calls of Wire.read();
\* rdOk: the read transfer goes through.  Wire.read() yields -1 when
\* nothing was received, which is 255 once stored in a uint8_t.
BusRead(w, sel, n, rdOk) ==
    LET got == Acks(sel) /\ rdOk
        at == PageOf(sel) * 256 + (w.latch % 256)
        data == [j \in 1..n |->
                   IF got THEN Peek(w.mem, (at + j - 1) % MAXADDRESS_04)
                   ELSE U8(-1)]
    IN  [mem   |-> w.mem,
         latch |-> IF got THEN (at + n) % MAXADDRESS_04 ELSE w.latch,
         bus   |-> w.bus \o <<ERequest(sel, n, IF got THEN n ELSE 0)>>
                        \o [j \in 1..n |-> ERead(data[j])],
         data  |-> data]

World(m, l, b) == [mem |-> m, latch |-> l, bus |-> b]
\* Result of a driver method: the world after it, its return value, its output.
Result(w, ret, out) == [mem |-> w.mem, latch |-> w.latch, bus |-> w.bus,
                        ret |-> ret, out |-> out]

(***************************************************************************)
(* Addressing and transfer primitives.                                     *)
(***************************************************************************)
\* Value of framAddr + (uint16_t) items - 1 in the build's arithmetic:
\* unsigned int where int has 16 bits, int where it has 32.
LastAddr(bits, framAddr, items) ==
    IF bits = 16 THEN U16(framAddr + items - 1) ELSE framAddr + items - 1

\* The range check with > for the second >=.
OutOfRangeLoose(bits, framAddr, items) ==
    (framAddr >= MAXADDRESS_04) \/ (LastAddr(bits, framAddr, items) > MAXADDRESS_04)

\* The range check of writeArray and readArray.
OutOfRange(bits, framAddr, items) ==
    (framAddr >= MAXADDRESS_04) \/ (LastAddr(bits, framAddr, items) >= MAXADDRESS_04)

\* The selector without the page bit.
SelectorNoPage(base, framAddr) == base

\* i2c_addr | ((framAddr >> 8) & 0x1)
Selector(base, framAddr) ==
    IF base % 2 = 1 THEN base ELSE base + ((framAddr \div 256) % 2)

\* The bus address readArray hands to Wire.requestFrom.
ReadSelector(base, framAddr) == base

writeArrayF(w, bits, base, framAddr, items, values, fault) ==
    IF OutOfRange(bits, framAddr, items) THEN Result(w, ERROR_11, <<>>)
    ELSE LET r == BusWrite(w, Selector(base, framAddr), framAddr % 256,
                           SubSeq(values, 1, items), fault)
         IN  Result(r, r.st, <<>>)

\* readArray returning ERROR_3 when the read received nothing.
readArrayReadStatus(w, bits, base, framAddr, items, fault, rdOk) ==
    IF OutOfRange(bits, framAddr, items) THEN Result(w, ERROR_11, <<>>)
    ELSE IF items = 0 THEN Result(w, ERROR_8, <<>>)
    ELSE LET a == BusWrite(w, Selector(base, framAddr), framAddr % 256, <<>>, fault)
             r == BusRead(a, ReadSelector(base, framAddr), items, rdOk)
         IN  Result(r, IF Acks(ReadSelector(base, framAddr)) /\ rdOk
                       THEN a.st ELSE ERROR_3, r.data)

readArrayF(w, bits, base, framAddr, items, fault, rdOk) ==
    IF OutOfRange(bits, framAddr, items) THEN Result(w, ERROR_11, <<>>)
    ELSE IF items = 0 THEN Result(w, ERROR_8, <<>>)
    ELSE LET a == BusWrite(w, Selector(base, framAddr), framAddr % 256, <<>>, fault)
             r == BusRead(a, ReadSelector(base, framAddr), items, rdOk)
         IN  Result(r, a.st, r.data)

(***************************************************************************)
(* Byte, bit and word accessors.  junk is what an uninitialized local      *)
(* buffer holds when readArray returns without filling it.                 *)
(***************************************************************************)
\* The local buffer after readArray(framAddr, n, buffer).
Buffer(r, n, junk) == IF Len(r.out) = n THEN r.out ELSE [j \in 1..n |-> junk]

writeByteF(w, bits, base, framAddr, value, fault) ==
    writeArrayF(w, bits, base, framAddr, 1, <<value>>, fault)

readByteF(w, bits, base, framAddr, fault, rdOk, junk) ==
    LET r == readArrayF(w, bits, base, framAddr, 1, fault, rdOk)
    IN  Result(r, r.ret, <<Buffer(r, 1, junk)[1]>>)

\* copyByte returning the read's status when it is not 0.
copyByteReadStatus(w, bits, base, origAddr, destAddr, fault, rdOk, junk, wfault) ==
    LET r == readByteF(w, bits, base, origAddr, fault, rdOk, junk)
        x == writeByteF(r, bits, base, destAddr, r.out[1], wfault)
    IN  Result(x, IF r.ret # 0 THEN r.ret ELSE x.ret, <<>>)

copyByteF(w, bits, base, origAddr, destAddr, fault, rdOk, junk, wfault) ==
    LET r == readByteF(w, bits, base, origAddr, fault, rdOk, junk)
        x == writeByteF(r, bits, base, destAddr, r.out[1], wfault)
    IN  Result(x, x.ret, <<>>)

readBitF(w, bits, base, framAddr, bitNb, fault, rdOk, junk) ==
    IF bitNb > 7 THEN Result(w, ERROR_9, <<>>)
    ELSE LET r == readArrayF(w, bits, base, framAddr, 1, fault, rdOk)
         IN  Result(r, r.ret, <<bitRead(Buffer(r, 1, junk)[1], bitNb)>>)

\* setOneBit testing bitNb > 8.
setOneBitLoose(w, bits, base, framAddr, bitNb, fault, rdOk, junk, wfault) ==
    IF bitNb > 8 THEN Result(w, ERROR_9, <<>>)
    ELSE LET r == readArrayF(w, bits, base, framAddr, 1, fault, rdOk)
             b == U8(bitSet(Buffer(r, 1, junk)[1], bitNb))
             x == writeArrayF(r, bits, base, framAddr, 1, <<b>>, wfault)
         IN  Result(x, x.ret, <<>>)

setOneBitF(w, bits, base, framAddr, bitNb, fault, rdOk, junk, wfault) ==
    IF bitNb > 7 THEN Result(w, ERROR_9, <<>>)
    ELSE LET r == readArrayF(w, bits, base, framAddr, 1, fault, rdOk)
             b == bitSet(Buffer(r, 1, junk)[1], bitNb)
             x == writeArrayF(r, bits, base, framAddr, 1, <<b>>, wfault)
         IN  Result(x, x.ret, <<>>)

clearOneBitF(w, bits, base, framAddr, bitNb, fault, rdOk, junk, wfault) ==
    IF bitNb > 7 THEN Result(w, ERROR_9, <<>>)
    ELSE LET r == readArrayF(w, bits, base, framAddr, 1, fault, rdOk)
             b == bitClear(Buffer(r, 1, junk)[1], bitNb)
             x == writeArrayF(r, bits, base, framAddr, 1, <<b>>, wfault)
         IN  Result(x, x.ret, <<>>)

toggleBitF(w, bits, base, framAddr, bitNb, fault, rdOk, junk, wfault) ==
    IF bitNb > 7 THEN Result(w, ERROR_9, <<>>)
    ELSE LET r == readArrayF(w, bits, base, framAddr, 1, fault, rdOk)
             b0 == Buffer(r, 1, junk)[1]
             \* (buffer[0] & (1 << bitNb)) == (1 << bitNb)
             b == IF bitRead(b0, bitNb) * Pow2(bitNb) = Pow2(bitNb)
                  THEN bitClear(b0, bitNb) ELSE bitSet(b0, bitNb)
             x == writeArrayF(r, bits, base, framAddr, 1, <<b>>, wfault)
         IN  Result(x, x.ret, <<>>)

\* The n bytes of an integer as the (little-endian) host lays them out.
ToBytes(value, n) == [j \in 1..n |-> (value \div Pow2(8 * (j - 1))) % 256]
RECURSIVE FromBytes(_)
\* The integer the host reads from a byte buffer.
FromBytes(buffer) ==
    IF buffer = <<>> THEN 0 ELSE Head(buffer) + 256 * FromBytes(Tail(buffer))

readWordF(w, bits, base, framAddr, fault, rdOk, junk) ==
    LET r == readArrayF(w, bits, base, framAddr, 2, fault, rdOk)
    IN  Result(r, r.ret, <<FromBytes(Buffer(r, 2, junk))>>)

writeWordF(w, bits, base, framAddr, value, fault) ==
    writeArrayF(w, bits, base, framAddr, 2, ToBytes(value, 2), fault)

\* A uint32_t is written <<high 16 bits, low 16 bits>>: its value exceeds the
\* integers of the model checker.  The host stores the low half first.
LongToBytes(value) == ToBytes(value[2], 2) \o ToBytes(value[1], 2)
LongFromBytes(buffer) ==
    <<FromBytes(SubSeq(buffer, 3, 4)), FromBytes(SubSeq(buffer, 1, 2))>>

readLongF(w, bits, base, framAddr, fault, rdOk, junk) ==
    LET r == readArrayF(w, bits, base, framAddr, 4, fault, rdOk)
    IN  Result(r, r.ret, <<LongFromBytes(Buffer(r, 4, junk))>>)

writeLongF(w, bits, base, framAddr, value, fault) ==
    writeArrayF(w, bits, base, framAddr, 4, LongToBytes(value), fault)

(***************************************************************************)
(* Whole-device erase.  The write at address failAt meets the bus fault    *)
(* failSt; the loop stops at the first nonzero status, so what the bus     *)
(* would do to later writes is never seen.                                 *)
(***************************************************************************)
\* The loop stopping one address early.
eraseStepShort(s, bits, base, i, failAt, failSt) ==
    IF (i < MAXADDRESS_04 - 1) /\ (s.ret = 0)
    THEN writeByteF(s, bits, base, i, 0, IF i = failAt THEN failSt ELSE 0)
    ELSE s

\* One test of the loop condition with i, and the loop body if it holds.
eraseStep(s, bits, base, i, failAt, failSt) ==
    IF (i < MAXADDRESS_04) /\ (s.ret = 0)
    THEN writeByteF(s, bits, base, i, 0, IF i = failAt THEN failSt ELSE 0)
    ELSE s

RECURSIVE eraseLoop(_, _, _, _, _, _, _)
\* The iterations of the while loop for i = lo, lo + 1, ..., hi in this
\* order (the range is halved only to bound the depth of evaluation; once
\* the status is nonzero every later test of the loop condition fails).
eraseLoop(s, bits, base, lo, hi, failAt, failSt) ==
    IF lo > hi THEN s
    ELSE IF lo = hi THEN eraseStep(s, bits, base, lo, failAt, failSt)
    ELSE LET mid == (lo + hi) \div 2
             left == eraseLoop(s, bits, base, lo, mid, failAt, failSt)
         IN  IF left.ret # 0 THEN left
             ELSE eraseLoop(left, bits, base, mid + 1, hi, failAt, failSt)

eraseDeviceF(w, bits, base, failAt, failSt) ==
    eraseLoop(Result(w, 0, <<>>), bits, base, 0, MAXADDRESS_04, failAt, failSt)

(***************************************************************************)
(* Write-protect management.  A pin state p is the member wpStatus with    *)
(* the pin's direction and level and the GPIO calls made.                  *)
(***************************************************************************)
PinState(status, dir, level, log) ==
    [wpStatus |-> status, pinDir |-> dir, pinLevel |-> level, gpio |-> log]
WPResult(p, ret) == [p |-> p, ret |-> ret]

\* enableWP without the test of MANAGE_WP.
enableWPUnguarded(p, manage, pin) ==
    WPResult(PinState(TRUE, p.pinDir, "HIGH",
                      Append(p.gpio, <<"digitalWrite", pin, "HIGH">>)), ERROR_0)

enableWPF(p, manage, pin) ==
    IF manage
    THEN WPResult(PinState(TRUE, p.pinDir, "HIGH",
                           Append(p.gpio, <<"digitalWrite", pin, "HIGH">>)), ERROR_0)
    ELSE WPResult(p, ERROR_10)

\* disableWP driving the pin low without clearing wpStatus.
disableWPKeepsStatus(p, manage, pin) ==
    IF manage
    THEN WPResult(PinState(p.wpStatus, p.pinDir, "LOW",
                           Append(p.gpio, <<"digitalWrite", pin, "LOW">>)), ERROR_0)
    ELSE WPResult(p, ERROR_10)

disableWPF(p, manage, pin) ==
    IF manage
    THEN WPResult(PinState(FALSE, p.pinDir, "LOW",
                           Append(p.gpio, <<"digitalWrite", pin, "LOW">>)), ERROR_0)
    ELSE WPResult(p, ERROR_10)

initWPF(p, manage, pin, wp) ==
    IF manage
    THEN LET q == PinState(p.wpStatus, "OUTPUT", p.pinLevel,
                           Append(p.gpio, <<"pinMode", pin, "OUTPUT">>))
         IN  IF wp THEN enableWPF(q, manage, pin) ELSE disableWPF(q, manage, pin)
    ELSE WPResult(PinState(FALSE, p.pinDir, p.pinLevel, p.gpio), ERROR_0)

getWPStatusF(p) == p.wpStatus

(***************************************************************************)
(* Inputs of the model.                                                    *)
(***************************************************************************)
\* What the member i2c_addr may hold: the constructor assigns its parameter
\* to itself and leaves the member as it found it.  0: static storage; the
\* other two: the values that happen to address the device.
UninitSel == {0, FM24CXX_ADDRESS_A000, FM24CXX_ADDRESS_A000 + 1}
\* What an uninitialized local buffer may hold.
Junk == {0, 90}
\* What the bus may do to a transaction the device accepts.
Faults == {ERROR_0, ERROR_3}

XferAddrs == {0, 510, 511, 512, 65535}
XferItems == {0, 1, MaxItems, 255}
Seeds     == {16, 240}
ByteAddrs == {0, 300, 511, 512}
Vals      == {0, 165, 255}
BitNbs    == {0, 7, 8, 255}
BitAddrs  == {0, 300, 512}
WordAddrs == {0, 510, 511}
WordVals  == {0, 4660, 65535}
LongAddrs == {0, 508, 509}
\* 0x00000000, 0xDEADBEEF, 0xFFFFFFFF
LongVals  == {<<0, 0>>, <<57005, 48879>>, <<65535, 65535>>}
FailAts   == {0, 1, 256, 511, MAXADDRESS_04}
\* Capacities in bytes the constructor may be given: 2, 4 and 16 kbit parts.
Densities == {256, MAXADDRESS_04, 2048}

(***************************************************************************)
(* Initial state: the object as the constructor leaves it.                 *)
(***************************************************************************)
\* Did every bus transaction of the log go through: each endTransmission
\* returned 0 and each requestFrom received the bytes it asked for.
AllOk(log) ==
    \A i \in DOMAIN log :
        /\ (log[i].f = "endTransmission" => log[i].r = 0)
        /\ (log[i].f = "requestFrom" => log[i].r = log[i].n)

\* The record of a call: the method, its address argument, its second
\* argument n (items, bitNb, destAddr), the values passed, the value returned,
\* the outputs, whether the bus transactions all went through, and the byte
\* the device held at the address before the call.
MkCall(op, addr, n, vals, r, old) ==
    [op |-> op, addr |-> addr, n |-> n, vals |-> vals, ret |-> r.ret,
     out |-> r.out, ok |-> AllOk(r.bus), old |-> old]
\* What a method that does not use the bus returns.
Plain(ret, out) == [ret |-> ret, out |-> out, bus |-> <<>>]
NoCall == MkCall("none", 0, 0, <<>>, Plain(0, <<>>), 0)

\* FRAM_FM24CXX_I2C(i2c_addr, wp, pin, chipDensity) with wp among wps and
\* chipDensity among densities, in a build whose MANAGE_WP is manage.
Constructed(manage, wps, densities) ==
    \E bits \in {16, 32}, garbage \in UninitSel, wp \in wps, p \in 1..NumFill,
       density \in densities :
        LET r == initWPF(PinState(FALSE, "INPUT", "NONE", <<>>), manage,
                         DEFAULT_WP_PIN, wp)
        IN  /\ intBits = bits
            /\ manageWP = manage
            /\ ctorAddr = FM24CXX_ADDRESS_A000
            /\ chipDensity = density
            /\ i2c_addr = garbage
            /\ wpPin = DEFAULT_WP_PIN
            /\ wpStatus = r.p.wpStatus
            /\ pinDir = r.p.pinDir
            /\ pinLevel = r.p.pinLevel
            /\ gpio = r.p.gpio
            /\ mem = InitMem(p)
            /\ latch = 0
            /\ call = MkCall("FRAM_FM24CXX_I2C", FM24CXX_ADDRESS_A000,
                             IF wp THEN 1 ELSE 0, <<>>, Plain(r.ret, <<>>), 0)
            /\ prev = NoCall
            /\ bus = <<>>
            /\ steps = 0

\* MANAGE_WP is false in the header, and DEFAULT_WP_STATUS is what the
\* constructor is given.
Init == Constructed(FALSE, {DEFAULT_WP_STATUS}, {MAXADDRESS_04})
\* The same build, whatever protection and capacity the constructor is given.
InitUnmanaged == Constructed(FALSE, BOOLEAN, {MAXADDRESS_04})
InitDensity == Constructed(FALSE, {DEFAULT_WP_STATUS}, Densities)
\* A build whose header defines MANAGE_WP as true.
InitManaged == Constructed(TRUE, BOOLEAN, {MAXADDRESS_04})

(***************************************************************************)
(* Actions: one call of a public method each.                              *)
(***************************************************************************)
Here == World(mem, latch, <<>>)
\* Does a transfer of n bytes at framAddr get as far as the bus.
OnBus(framAddr, n) == ~OutOfRange(intBits, framAddr, n) /\ n > 0
\* Does a bit method with these arguments get as far as the bus.
BitOnBus(framAddr, bitNb) == OnBus(framAddr, 1) /\ bitNb <= 7
\* The bus faults, read outcomes and buffer contents that make a difference
\* to a call: those of the bus if the call gets to it, and those of the
\* uninitialized buffer if readArray returns before filling it.
FaultsIf(used) == IF used THEN Faults ELSE {ERROR_0}
\* The WP pin is active high: the device refuses the data of a write while
\* the pin is driven high.
WriteFaults == IF pinLevel = "HIGH" THEN {ERROR_3} ELSE Faults
WFaultsIf(used) == IF used THEN WriteFaults ELSE {ERROR_0}
EraseFailAts == IF pinLevel = "HIGH" THEN {0} ELSE FailAts
ReadsIf(used)  == IF used THEN BOOLEAN ELSE {TRUE}
JunkIf(used)   == IF used THEN {0} ELSE Junk
\* The buffer of a bit method is read only past the test of bitNb.
BitJunk(framAddr, bitNb) == IF bitNb > 7 THEN {0} ELSE JunkIf(OnBus(framAddr, 1))
\* The byte the device holds at a, 0 outside the device.
Old(a) == IF a < MAXADDRESS_04 THEN Peek(mem, a) ELSE 0

\* A transfer method that clears wpStatus.
TransferClearsWP(c, r) ==
    /\ mem' = r.mem
    /\ latch' = r.latch
    /\ bus' = r.bus
    /\ gpio' = <<>>
    /\ call' = c
    /\ prev' = call
    /\ steps' = steps + 1
    /\ wpStatus' = FALSE
    /\ UNCHANGED <<intBits, manageWP, ctorAddr, chipDensity, i2c_addr, wpPin,
                   pinDir, pinLevel>>

\* A transfer method returned r: the device and the records after it.
Transfer(c, r) ==
    /\ mem' = r.mem
    /\ latch' = r.latch
    /\ bus' = r.bus
    /\ gpio' = <<>>
    /\ call' = c
    /\ prev' = call
    /\ steps' = steps + 1
    /\ UNCHANGED <<intBits, manageWP, ctorAddr, chipDensity, i2c_addr, wpPin, wpStatus,
                   pinDir, pinLevel>>

WriteArray ==
    \E framAddr \in XferAddrs, items \in XferItems, seed \in Seeds,
       fault \in WriteFaults :
        LET values == [j \in 1..items |-> U8(seed + j)]
            r == writeArrayF(Here, intBits, i2c_addr, framAddr, items, values, fault)
        IN  Transfer(MkCall("writeArray", framAddr, items, values, r,
                            Old(framAddr)), r)

ReadArray ==
    \E framAddr \in XferAddrs, items \in XferItems :
      \E fault \in FaultsIf(OnBus(framAddr, items)),
         rdOk \in ReadsIf(OnBus(framAddr, items)) :
        LET r == readArrayF(Here, intBits, i2c_addr, framAddr, items, fault, rdOk)
        IN  Transfer(MkCall("readArray", framAddr, items, <<>>, r,
                            Old(framAddr)), r)

WriteByte ==
    \E framAddr \in ByteAddrs, value \in Vals, fault \in WriteFaults :
        LET r == writeByteF(Here, intBits, i2c_addr, framAddr, value, fault)
        IN  Transfer(MkCall("writeByte", framAddr, 1, <<value>>, r,
                            Old(framAddr)), r)

ReadByte ==
    \E framAddr \in ByteAddrs :
      \E fault \in FaultsIf(OnBus(framAddr, 1)), rdOk \in ReadsIf(OnBus(framAddr, 1)),
         junk \in JunkIf(OnBus(framAddr, 1)) :
        LET r == readByteF(Here, intBits, i2c_addr, framAddr, fault, rdOk, junk)
        IN  Transfer(MkCall("readByte", framAddr, 1, <<>>, r,
                            Old(framAddr)), r)

CopyByte ==
    \E origAddr \in ByteAddrs, destAddr \in ByteAddrs :
      \E fault \in FaultsIf(OnBus(origAddr, 1)),
         rdOk \in ReadsIf(OnBus(origAddr, 1)),
         junk \in JunkIf(OnBus(origAddr, 1)), wfault \in WFaultsIf(OnBus(destAddr, 1)) :
        LET r == copyByteF(Here, intBits, i2c_addr, origAddr, destAddr, fault,
                           rdOk, junk, wfault)
        IN  Transfer(MkCall("copyByte", origAddr, destAddr, <<>>, r,
                            Old(destAddr)), r)

ReadBit ==
    \E framAddr \in BitAddrs, bitNb \in BitNbs :
      \E fault \in FaultsIf(BitOnBus(framAddr, bitNb)),
         rdOk \in ReadsIf(BitOnBus(framAddr, bitNb)),
         junk \in BitJunk(framAddr, bitNb) :
        LET r == readBitF(Here, intBits, i2c_addr, framAddr, bitNb, fault, rdOk, junk)
        IN  Transfer(MkCall("readBit", framAddr, bitNb, <<>>, r,
                            Old(framAddr)), r)

SetOneBit ==
    \E framAddr \in BitAddrs, bitNb \in BitNbs :
      \E fault \in FaultsIf(BitOnBus(framAddr, bitNb)),
         rdOk \in ReadsIf(BitOnBus(framAddr, bitNb)),
         junk \in BitJunk(framAddr, bitNb), wfault \in WFaultsIf(BitOnBus(framAddr, bitNb)) :
        LET r == setOneBitF(Here, intBits, i2c_addr, framAddr, bitNb, fault, rdOk,
                            junk, wfault)
        IN  Transfer(MkCall("setOneBit", framAddr, bitNb, <<>>, r,
                            Old(framAddr)), r)

ClearOneBit ==
    \E framAddr \in BitAddrs, bitNb \in BitNbs :
      \E fault \in FaultsIf(BitOnBus(framAddr, bitNb)),
         rdOk \in ReadsIf(BitOnBus(framAddr, bitNb)),
         junk \in BitJunk(framAddr, bitNb), wfault \in WFaultsIf(BitOnBus(framAddr, bitNb)) :
        LET r == clearOneBitF(Here, intBits, i2c_addr, framAddr, bitNb, fault, rdOk,
                              junk, wfault)
        IN  Transfer(MkCall("clearOneBit", framAddr, bitNb, <<>>, r,
                            Old(framAddr)), r)

ToggleBit ==
    \E framAddr \in BitAddrs, bitNb \in BitNbs :
      \E fault \in FaultsIf(BitOnBus(framAddr, bitNb)),
         rdOk \in ReadsIf(BitOnBus(framAddr, bitNb)),
         junk \in BitJunk(framAddr, bitNb), wfault \in WFaultsIf(BitOnBus(framAddr, bitNb)) :
        LET r == toggleBitF(Here, intBits, i2c_addr, framAddr, bitNb, fault, rdOk,
                            junk, wfault)
        IN  Transfer(MkCall("toggleBit", framAddr, bitNb, <<>>, r,
                            Old(framAddr)), r)

ReadWord ==
    \E framAddr \in WordAddrs :
      \E fault \in FaultsIf(OnBus(framAddr, 2)), rdOk \in ReadsIf(OnBus(framAddr, 2)),
         junk \in JunkIf(OnBus(framAddr, 2)) :
        LET r == readWordF(Here, intBits, i2c_addr, framAddr, fault, rdOk, junk)
        IN  Transfer(MkCall("readWord", framAddr, 2, <<>>, r,
                            Old(framAddr)), r)

WriteWord ==
    \E framAddr \in WordAddrs, value \in WordVals, fault \in WriteFaults :
        LET r == writeWordF(Here, intBits, i2c_addr, framAddr, value, fault)
        IN  Transfer(MkCall("writeWord", framAddr, 2, <<value>>, r,
                            Old(framAddr)), r)

ReadLong ==
    \E framAddr \in LongAddrs :
      \E fault \in FaultsIf(OnBus(framAddr, 4)), rdOk \in ReadsIf(OnBus(framAddr, 4)),
         junk \in JunkIf(OnBus(framAddr, 4)) :
        LET r == readLongF(Here, intBits, i2c_addr, framAddr, fault, rdOk, junk)
        IN  Transfer(MkCall("readLong", framAddr, 4, <<>>, r,
                            Old(framAddr)), r)

WriteLong ==
    \E framAddr \in LongAddrs, value \in LongVals, fault \in WriteFaults :
        LET r == writeLongF(Here, intBits, i2c_addr, framAddr, value, fault)
        IN  Transfer(MkCall("writeLong", framAddr, 4, <<value>>, r,
                            Old(framAddr)), r)

EraseDevice ==
    \E failAt \in EraseFailAts, failSt \in Faults \ {ERROR_0} :
        LET r == eraseDeviceF(Here, intBits, i2c_addr, failAt, failSt)
        IN  Transfer(MkCall("eraseDevice", 0, 0, <<>>, r, 0), r)

\* A write-protect method returned r.
Protect(c, r) ==
    /\ wpStatus' = r.p.wpStatus
    /\ pinDir' = r.p.pinDir
    /\ pinLevel' = r.p.pinLevel
    /\ gpio' = r.p.gpio
    /\ bus' = <<>>
    /\ call' = c
    /\ prev' = call
    /\ steps' = steps + 1
    /\ UNCHANGED <<intBits, manageWP, ctorAddr, chipDensity, i2c_addr, wpPin, mem, latch>>

Pin == PinState(wpStatus, pinDir, pinLevel, <<>>)

EnableWP ==
    LET r == enableWPF(Pin, manageWP, wpPin)
    IN  Protect(MkCall("enableWP", 0, 0, <<>>, Plain(r.ret, <<>>), 0), r)

DisableWP ==
    LET r == disableWPF(Pin, manageWP, wpPin)
    IN  Protect(MkCall("disableWP", 0, 0, <<>>, Plain(r.ret, <<>>), 0), r)

\* begin() only prints the members to Serial.
Begin ==
    Protect(MkCall("begin", 0, 0, <<>>, Plain(0, <<>>), 0), WPResult(Pin, 0))

GetWPStatus ==
    Protect(MkCall("getWPStatus", 0, 0, <<>>, Plain(0, <<getWPStatusF(Pin)>>), 0),
            WPResult(Pin, 0))

(***************************************************************************)
(* Specifications.  Spec lets every method be called; the others call the  *)
(* methods of one group, for MaxOps calls or, where two consecutive calls  *)
(* are related, for one call more.                                         *)
(***************************************************************************)
Within(k) == steps < k

Next ==
    \/ Within(MaxOps) /\ WriteArray
    \/ Within(MaxOps) /\ ReadArray
    \/ Within(MaxOps) /\ WriteByte
    \/ Within(MaxOps) /\ ReadByte
    \/ Within(MaxOps) /\ CopyByte
    \/ Within(MaxOps) /\ ReadBit
    \/ Within(MaxOps) /\ SetOneBit
    \/ Within(MaxOps) /\ ClearOneBit
    \/ Within(MaxOps) /\ ToggleBit
    \/ Within(MaxOps) /\ ReadWord
    \/ Within(MaxOps) /\ WriteWord
    \/ Within(MaxOps) /\ ReadLong
    \/ Within(MaxOps) /\ WriteLong
    \/ Within(MaxOps) /\ EraseDevice
    \/ Within(MaxOps) /\ EnableWP
    \/ Within(MaxOps) /\ DisableWP
    \/ Within(MaxOps) /\ GetWPStatus
    \/ Within(MaxOps) /\ Begin
NextXfer ==
    \/ Within(MaxOps) /\ WriteArray
    \/ Within(MaxOps) /\ ReadArray
NextBitCall ==
    \/ Within(MaxOps) /\ ReadBit
    \/ Within(MaxOps) /\ SetOneBit
    \/ Within(MaxOps) /\ ClearOneBit
    \/ Within(MaxOps) /\ ToggleBit
NextErase ==
    \/ Within(MaxOps) /\ EraseDevice
    \/ Within(MaxOps) /\ ReadByte
NextProtect ==
    \/ Within(MaxOps + 1) /\ EnableWP
    \/ Within(MaxOps + 1) /\ DisableWP
    \/ Within(MaxOps + 1) /\ GetWPStatus
    \/ Within(MaxOps + 1) /\ WriteByte
\* Only the constructor, enableWP and disableWP have been called so far.
OnlyProtected ==
    /\ Within(MaxOps + 1)
    /\ call.op \in {"FRAM_FM24CXX_I2C", "enableWP", "disableWP"}
\* Up to MaxOps calls of enableWP and disableWP, then one call of any other
\* method.
NextFrame ==
    \/ OnlyProtected /\ Within(MaxOps) /\ EnableWP
    \/ OnlyProtected /\ Within(MaxOps) /\ DisableWP
    \/ OnlyProtected /\ WriteArray
    \/ OnlyProtected /\ ReadArray
    \/ OnlyProtected /\ WriteByte
    \/ OnlyProtected /\ ReadByte
    \/ OnlyProtected /\ CopyByte
    \/ OnlyProtected /\ ReadBit
    \/ OnlyProtected /\ SetOneBit
    \/ OnlyProtected /\ ClearOneBit
    \/ OnlyProtected /\ ToggleBit
    \/ OnlyProtected /\ ReadWord
    \/ OnlyProtected /\ WriteWord
    \/ OnlyProtected /\ ReadLong
    \/ OnlyProtected /\ WriteLong
    \/ OnlyProtected /\ EraseDevice
    \/ OnlyProtected /\ GetWPStatus
    \/ OnlyProtected /\ Begin
NextDensity ==
    \/ Within(MaxOps) /\ WriteArray
    \/ Within(MaxOps) /\ ReadArray
    \/ Within(MaxOps) /\ EraseDevice
NextCopy ==
    \/ Within(MaxOps) /\ CopyByte
    \/ Within(MaxOps) /\ ReadByte
NextByte ==
    \/ Within(MaxOps + 1) /\ WriteByte
    \/ Within(MaxOps + 1) /\ ReadByte
NextBit ==
    \/ Within(MaxOps + 1) /\ ReadBit
    \/ Within(MaxOps + 1) /\ SetOneBit
    \/ Within(MaxOps + 1) /\ ClearOneBit
    \/ Within(MaxOps + 1) /\ ToggleBit
NextWord ==
    \/ Within(MaxOps + 1) /\ ReadWord
    \/ Within(MaxOps + 1) /\ WriteWord
    \/ Within(MaxOps + 1) /\ ReadLong
    \/ Within(MaxOps + 1) /\ WriteLong

Spec        == Init /\ [][Next]_vars
SpecXfer    == Init /\ [][NextXfer]_vars
SpecBitCall == Init /\ [][NextBitCall]_vars
SpecErase   == Init /\ [][NextErase]_vars
SpecUnmanaged == InitUnmanaged /\ [][NextProtect]_vars
SpecManaged == InitManaged /\ [][NextProtect]_vars
SpecFrame   == InitManaged /\ [][NextFrame]_vars
SpecDensity == InitDensity /\ [][NextDensity]_vars
SpecCopy    == Init /\ [][NextCopy]_vars
SpecByte    == Init /\ [][NextByte]_vars
SpecBit     == Init /\ [][NextBit]_vars
SpecWord    == Init /\ [][NextWord]_vars

(***************************************************************************)
(* Properties.                                                             *)
(***************************************************************************)
\* base | bit for a bit of 0 or 1.
OrBit(base, bit) == IF base % 2 = 1 THEN base ELSE base + bit
\* The selector a transaction on addr is to carry.
PageSelector(addr) == OrBit(i2c_addr, (addr \div 256) % 2)
Xfers == {"writeArray", "readArray"}

\* C1: writeArray and readArray with addr + length > capacity, which
\* includes every addr >= capacity, return ERROR_11 and make no bus call.
C1_OutOfRangeNoBus ==
    (call.op \in Xfers /\ call.addr + call.n > MAXADDRESS_04)
        => (call.ret = ERROR_11 /\ bus = <<>>)

\* A transfer that ends exactly one byte past the device was refused.
C1_Witness ==
    /\ call.op \in Xfers
    /\ call.addr < MAXADDRESS_04
    /\ call.addr + call.n = MAXADDRESS_04 + 1
    /\ call.ret = ERROR_11
    /\ bus = <<>>

\* C2: readArray(addr, 0, out) with 0 <= addr < capacity, addr = 0
\* included, returns ERROR_8 and makes no bus call.
C2_EmptyRequest ==
    (call.op = "readArray" /\ call.addr < MAXADDRESS_04 /\ call.n = 0)
        => (call.ret = ERROR_8 /\ bus = <<>>)

\* C4: an in-range writeArray of length >= 1 makes exactly one bus
\* transaction: begin with i2c_addr | ((addr >> 8) & 1), the sub-address
\* addr & 0xFF, the data bytes in buffer order, end; it returns the status of
\* the end and makes no other call.
C4_WriteTransaction ==
    (call.op = "writeArray" /\ call.n >= 1 /\ call.addr + call.n - 1 < MAXADDRESS_04)
        => /\ Len(bus) = call.n + 3
           /\ bus[1] = EBegin(PageSelector(call.addr))
           /\ bus[2] = EWrite(call.addr % 256)
           /\ \A j \in 1..call.n : bus[2 + j] = EWrite(call.vals[j])
           /\ bus[call.n + 3].f = "endTransmission"
           /\ call.ret = bus[call.n + 3].r

\* A write to the second page whose transaction the bus failed.
C4_Witness ==
    /\ call.op = "writeArray"
    /\ call.addr >= 256
    /\ call.n = MaxItems
    /\ call.addr + call.n = MAXADDRESS_04
    /\ Len(bus) = call.n + 3
    /\ call.ret = ERROR_3

\* C5: an in-range readArray of length >= 1 returns the status of the end
\* of the address phase; the read request for length bytes follows the
\* address phase and the bytes read fill the output in order, whatever that
\* status and whatever the read received.
C5_ReadStatus ==
    (call.op = "readArray" /\ call.n >= 1 /\ call.addr + call.n - 1 < MAXADDRESS_04)
        => /\ Len(bus) = call.n + 4
           /\ bus[1].f = "beginTransmission"
           /\ bus[2] = EWrite(call.addr % 256)
           /\ bus[3].f = "endTransmission"
           /\ call.ret = bus[3].r
           /\ bus[4].f = "requestFrom"
           /\ bus[4].n = call.n
           /\ Len(call.out) = call.n
           /\ \A j \in 1..call.n : bus[4 + j] = ERead(call.out[j])

\* The address phase succeeded, the read received nothing, and 0 came back.
C5_Witness ==
    /\ call.op = "readArray"
    /\ call.n >= 1
    /\ Len(bus) = call.n + 4
    /\ bus[3].r = 0
    /\ bus[4].r = 0
    /\ call.ret = 0

\* The call before the last and the last were op1 and op2 on the same
\* in-range address, and every bus transaction of both went through.
Pair(op1, op2, len) ==
    /\ prev.op = op1
    /\ call.op = op2
    /\ call.addr = prev.addr
    /\ call.addr + len - 1 < MAXADDRESS_04
    /\ prev.ok
    /\ call.ok

\* C3: writeByte(a, v) followed by readByte(a), 0 <= a < capacity, returns
\* status 0 and yields v when the bus transactions succeed.
C3_ByteRoundTrip ==
    Pair("writeByte", "readByte", 1)
        => (prev.ret = 0 /\ call.ret = 0 /\ call.out = prev.vals)

\* C6: writeWord(a, v) then readWord(a) yields v for a + 1 < capacity, and
\* writeLong(a, w) then readLong(a) yields w for a + 3 < capacity, when the
\* bus transactions succeed.
C6_WordLongRoundTrip ==
    /\ Pair("writeWord", "readWord", 2)
          => (prev.ret = 0 /\ call.ret = 0 /\ call.out = prev.vals)
    /\ Pair("writeLong", "readLong", 4)
          => (prev.ret = 0 /\ call.ret = 0 /\ call.out = prev.vals)

\* C7: on a valid address a and a bit i <= 7, setOneBit(a, i) followed by
\* readBit(a, i) yields 1 and clearOneBit(a, i) followed by readBit(a, i)
\* yields 0, when the bus transactions succeed.
C7_SetClearThenRead ==
    /\ (Pair("setOneBit", "readBit", 1) /\ call.n = prev.n /\ call.n <= 7)
          => (prev.ret = 0 /\ call.ret = 0 /\ call.out = <<1>>)
    /\ (Pair("clearOneBit", "readBit", 1) /\ call.n = prev.n /\ call.n <= 7)
          => (prev.ret = 0 /\ call.ret = 0 /\ call.out = <<0>>)

\* value XOR (1 << bit) on a byte.
Flip(value, bit) ==
    IF (value \div Pow2(bit)) % 2 = 1 THEN value - Pow2(bit) ELSE value + Pow2(bit)

\* C8: on a valid address a and a bit i <= 7, one toggleBit(a, i) turns the
\* byte P at a into P XOR (1 << i), and a second one turns it back into P,
\* when the bus transactions succeed.
C8_Toggle ==
    /\ (call.op = "toggleBit" /\ call.n <= 7 /\ call.addr < MAXADDRESS_04 /\ call.ok)
          => (call.ret = 0 /\ Peek(mem, call.addr) = Flip(call.old, call.n))
    /\ (Pair("toggleBit", "toggleBit", 1) /\ call.n = prev.n /\ call.n <= 7)
          => Peek(mem, call.addr) = prev.old

BitMethods == {"readBit", "setOneBit", "clearOneBit", "toggleBit"}

\* C9: readBit, setOneBit, clearOneBit and toggleBit with bitNb > 7 return
\* ERROR_9, make no bus call and leave the device as it was.
C9_BitIndexRefused ==
    [][(call'.op \in BitMethods /\ call'.n > 7 /\ steps' = steps + 1)
          => (call'.ret = ERROR_9 /\ bus' = <<>> /\ mem' = mem /\ latch' = latch)]_vars

\* A bit method was refused bit 8 of an address of the device.
C9_Witness ==
    /\ call.op \in BitMethods \ {"readBit"}
    /\ call.n = 8
    /\ call.addr < MAXADDRESS_04
    /\ call.ret = ERROR_9
    /\ bus = <<>>

\* What readByte(a) yields from the present state when the bus works.
ReadsAs(a) == readByteF(Here, intBits, i2c_addr, a, 0, TRUE, 0)

\* C10: when every bus transaction succeeds, eraseDevice returns 0 having
\* made exactly MAXADDRESS_04 write transactions, and afterwards every
\* address 0..MAXADDRESS_04-1 reads 0 (and the device holds 0 there when
\* i2c_addr has its page bit clear).
C10_EraseAll ==
    (call.op = "eraseDevice" /\ call.ok)
        => /\ call.ret = 0
           /\ Len(bus) = 4 * MAXADDRESS_04
           /\ \A k \in 0..(MAXADDRESS_04 - 1) :
                 /\ bus[4 * k + 1].f = "beginTransmission"
                 /\ bus[4 * k + 2].f = "write"
                 /\ bus[4 * k + 3] = EWrite(0)
                 /\ bus[4 * k + 4] = EEnd(0)
           /\ \A a \in 0..(MAXADDRESS_04 - 1) :
                 /\ ReadsAs(a).ret = 0
                 /\ ReadsAs(a).out = <<0>>
                 /\ (i2c_addr % 2 = 0 => Peek(mem, a) = 0)

\* An erase whose transactions all succeeded.
C10_Witness ==
    /\ call.op = "eraseDevice"
    /\ call.ok
    /\ call.ret = 0
    /\ Len(bus) = 4 * MAXADDRESS_04
    /\ \E a \in 0..(MAXADDRESS_04 - 1) : InitByte(mem.fill, a) # 0

\* The address a write transaction of the log names: the page bit of its
\* selector and its word address byte; t counts transactions from 0.
TxAddr(log, t) == PageOf(log[4 * t + 1].x) * 256 + log[4 * t + 2].x
TxStatus(log, t) == log[4 * t + 4].r

\* C11: eraseDevice writes one byte 0 per address, in ascending order from
\* 0; the first write with a nonzero status is the last transaction, its
\* status is returned, the addresses below it hold 0 and those above it
\* keep what they held.
C11_EraseStopsAtFailure ==
    [][(call'.op = "eraseDevice" /\ steps' = steps + 1)
        => LET n == Len(bus') \div 4
           IN  /\ Len(bus') = 4 * n
               /\ n >= 1
               /\ \A t \in 0..(n - 1) :
                     /\ bus'[4 * t + 1].f = "beginTransmission"
                     /\ bus'[4 * t + 2].f = "write"
                     /\ TxAddr(bus', t) = t
                     /\ bus'[4 * t + 3] = EWrite(0)
                     /\ bus'[4 * t + 4].f = "endTransmission"
                     /\ (t < n - 1 => TxStatus(bus', t) = 0)
               /\ call'.ret = TxStatus(bus', n - 1)
               /\ (TxStatus(bus', n - 1) = 0 => n = MAXADDRESS_04)
               /\ (TxStatus(bus', n - 1) # 0
                     => /\ \A a \in 0..(n - 2) : Peek(mem', a) = 0
                        /\ \A a \in n..(MAXADDRESS_04 - 1) :
                              Peek(mem', a) = Peek(mem, a))]_vars

\* The last step was a call of copyByte; call'.addr is origAddr and
\* call'.n is destAddr.
Copied == call'.op = "copyByte" /\ steps' = steps + 1

\* C12: after copyByte(src, dst) on valid addresses with a working bus, dst
\* holds what src held before, src is unchanged, and with src = dst the
\* whole memory is unchanged.
C12_CopyMovesByte ==
    [][(Copied /\ call'.addr < MAXADDRESS_04 /\ call'.n < MAXADDRESS_04 /\ call'.ok)
        => /\ call'.ret = 0
           /\ Peek(mem', call'.n) = Peek(mem, call'.addr)
           /\ Peek(mem', call'.addr) = Peek(mem, call'.addr)
           /\ (call'.addr = call'.n
                 => \A a \in 0..(MAXADDRESS_04 - 1) : Peek(mem', a) = Peek(mem, a))]_vars

\* Number of bus calls the read of origAddr makes.
ReadLen(origAddr) == IF OutOfRange(intBits, origAddr, 1) THEN 0 ELSE 5

\* C13: copyByte makes the read of src, then the write of dst, and returns
\* the status of that write whatever the read returned.
C13_CopyReturnsWriteStatus ==
    (call.op = "copyByte")
        => LET R == ReadLen(call.addr)
           IN  /\ (R = 5 =>
                     /\ Len(bus) >= 5
                     /\ bus[1] = EBegin(Selector(i2c_addr, call.addr))
                     /\ bus[2] = EWrite(call.addr % 256)
                     /\ bus[3].f = "endTransmission"
                     /\ bus[4].f = "requestFrom"
                     /\ bus[5].f = "read")
               /\ IF OutOfRange(intBits, call.n, 1)
                  THEN Len(bus) = R /\ call.ret = ERROR_11
                  ELSE /\ Len(bus) = R + 4
                       /\ bus[R + 1] = EBegin(Selector(i2c_addr, call.n))
                       /\ bus[R + 2] = EWrite(call.n % 256)
                       /\ bus[R + 3].f = "write"
                       /\ (R = 5 => bus[R + 3].x = bus[5].r)
                       /\ bus[R + 4].f = "endTransmission"
                       /\ call.ret = bus[R + 4].r

\* A copy whose read failed on the bus and whose write succeeded.
C13_Witness ==
    /\ call.op = "copyByte"
    /\ ReadLen(call.addr) = 5
    /\ Len(bus) = 9
    /\ bus[3].r = ERROR_3
    /\ bus[9].r = 0
    /\ call.ret = 0

\* C20: copyByte from an address outside the device to a valid one makes
\* no write transaction and changes no byte of the device; and a byte
\* written by copyByte is one a read of src received.
C20_CopyWritesOnlyWhatItRead ==
    [][Copied
        => /\ (call'.addr >= MAXADDRESS_04 /\ call'.n < MAXADDRESS_04)
                 => (bus' = <<>> /\ mem' = mem)
           /\ (\E i \in DOMAIN bus' : bus'[i].f = "write" /\ bus'[i - 1].f = "write")
                 => /\ Len(bus') = 9
                    /\ bus'[4].r = 1
                    /\ bus'[8].x = bus'[5].r]_vars

ProtectMethods == {"enableWP", "disableWP"}

LastLevel(log) ==
    IF log = <<>> \/ log[Len(log)][1] # "digitalWrite" THEN "NONE"
    ELSE log[Len(log)][3]

C16_ProtectFrame ==
    [][(steps' = steps + 1 /\ call'.op \notin ProtectMethods)
        => /\ wpStatus' = wpStatus
           /\ pinLevel' = pinLevel
           /\ pinDir' = pinDir
           /\ wpPin' = wpPin
           /\ gpio' = <<>>]_vars

\* A transfer that failed on a protected device, which stays protected.
C16_Witness ==
    /\ manageWP
    /\ wpStatus
    /\ pinLevel = "HIGH"
    /\ call.op = "writeByte"
    /\ call.ret = ERROR_3
    /\ gpio = <<>>

\* C17: the member i2c_addr holds the selector the constructor was given,
\* in every state, and a transfer on framAddr addresses its transaction to
\* that selector with bit 8 of framAddr in its low bit.
C17_SelectorStored ==
    /\ i2c_addr = ctorAddr
    /\ (call.op \in Xfers /\ bus # <<>>)
          => bus[1] = EBegin(Selector(ctorAddr, call.addr))

\* C18: with capacity chipDensity, writeArray and readArray of at least
\* one byte return ERROR_11 exactly when framAddr + items - 1 is not below
\* chipDensity, and a successful eraseDevice makes chipDensity write
\* transactions.
C18_CapacityFromConstructor ==
    /\ (call.op \in Xfers /\ call.n >= 1)
          => (call.ret = ERROR_11 <=> call.addr + call.n - 1 >= chipDensity)
    /\ (call.op = "eraseDevice" /\ call.ok)
          => Len(bus) = 4 * chipDensity

\* C19: the requestFrom of readArray is addressed to the selector of its
\* address phase, i2c_addr with bit 8 of framAddr in its low bit.
C19_ReadSelectorHasPage ==
    (call.op = "readArray" /\ Len(bus) >= 4)
        => /\ bus[1] = EBegin(Selector(i2c_addr, call.addr))
           /\ bus[4].f = "requestFrom"
           /\ bus[4].x = bus[1].x

\* C21: when setOneBit, clearOneBit or toggleBit on a valid address and a
\* bit <= 7 returns 0, whatever happened to its read, the byte at the
\* address differs from what it was in at most that bit, and every other
\* byte of the device is unchanged.
C21_BitWriteFrame ==
    [][(/\ steps' = steps + 1
        /\ call'.op \in BitMethods \ {"readBit"}
        /\ call'.addr < MAXADDRESS_04
        /\ call'.n <= 7
        /\ call'.ret = 0)
        => /\ Peek(mem', call'.addr) \in
                 {Peek(mem, call'.addr), Flip(Peek(mem, call'.addr), call'.n)}
           /\ \A a \in 0..(MAXADDRESS_04 - 1) :
                 a # call'.addr => Peek(mem', a) = Peek(mem, a)]_vars

====
